---- MODULE Spec2Model ----
(***************************************************************************)
(* Model of scripts/health_check.py: one execution of the script runs one  *)
(* health-check cycle (collect, evaluate, dispatch, report).  Percentages  *)
(* are kept in tenths of a percent, the resolution psutil reports.         *)
(***************************************************************************)
EXTENDS Integers, Sequences, FiniteSets, TLC

\* ---------------------------------------------------------------- bounds
\* distance, in tenths of a percent, of the sampled values on either side of
\* a threshold
Spread == 1
\* number of times the script is executed
MaxCycles == 2

\* ------------------------------------------------------- configuration
CPU_THRESHOLD == 80
MEMORY_THRESHOLD == 85
DISK_THRESHOLD == 90

VARIABLES
    pc,          \* position of the script
    cycle,       \* ordinal of this execution of the script
    timestamp,   \* local `timestamp` of run_health_check
    sample,      \* locals cpu / memory / disk, by name, once assigned
    issues,      \* local `issues`
    response,    \* last `response` send_slack_alert received: <<>> or <<status>>
    smtpOpen,    \* the SMTP connection of send_email_alert is open
    exc,         \* exception in flight ("none" when there is none)
    escaped,     \* exception that left run_health_check ("none" when none did)
    ret,         \* value returned by run_health_check: <<>> or <<bool>>
    log,         \* records this execution appended to the log file
    net,         \* network operations this execution performed, in order
    prev         \* observation of the previous execution: <<>> or <<record>>

vars == <<pc, cycle, timestamp, sample, issues, response, smtpOpen, exc,
          escaped, ret, log, net, prev>>

\* ------------------------------------------------------------- helpers
Tenths(percent) == percent * 10

\* values a collector reports for a metric with the given threshold: one
\* below it, the threshold itself, one above it
Samples(threshold) ==
    {Tenths(threshold) - Spread, Tenths(threshold), Tenths(threshold) + Spread}

\* HTTP status codes the webhook endpoint can answer with
Statuses == {200, 304, 404, 500}

LogRec(level, msg, detail) == [level |-> level, msg |-> msg, detail |-> detail]

\* f"High CPU usage: {cpu}% (threshold: {CPU_THRESHOLD}%)"
Issue(label, value, threshold) ==
    [metric |-> label, value |-> value, threshold |-> threshold]

\* f"Server Health Alert!\nTime: {timestamp}\n\n{alert_message}"
FullMessage == [time |-> timestamp, lines |-> issues]

Exceeds_inclusive(value, threshold) == value >= Tenths(threshold)
\* `cpu > CPU_THRESHOLD`, `memory > MEMORY_THRESHOLD`, `disk > DISK_THRESHOLD`
Exceeds(value, threshold) == value > Tenths(threshold)

Verdict_nonempty(iss) == Len(iss) # 0
\* `return len(issues) == 0`
Verdict(iss) == Len(iss) = 0

ShouldAlert_always(iss) == TRUE
\* `if issues:`
ShouldAlert(iss) == iss # <<>>

FreshIssues_stale(old) == old
\* `issues = []`
FreshIssues(old) == <<>>

raise_for_status_server_only(status) == 500 <= status /\ status < 600
\* response.raise_for_status(): raises HTTPError for 4xx and 5xx
raise_for_status(status) == 400 <= status /\ status < 600

CollectorHandler == "main_except"

SlackHandler_none == "main_except"
\* `except Exception as e:` of send_slack_alert
SlackHandler == "slack_except"

EmailHandler == "email_except"

BodyHandler_unscoped == "email_except"
\* an exception inside the `with` body runs SMTP.__exit__ before the handler
BodyHandler == "smtp_exit"

MainExceptRecord_error(e) == LogRec("ERROR", "Health check script failed", e)
\* logging.critical(f"Health check script failed: {str(e)}")
MainExceptRecord(e) == LogRec("CRITICAL", "Health check script failed", e)

\* raise e: control moves to the nearest enclosing handler
Unwind(e, handler) ==
    /\ exc' = e
    /\ pc' = handler
    /\ escaped' = IF handler = "main_except" THEN e ELSE escaped

Ops(op) == {i \in DOMAIN net : net[i].op = op}
Logged(level, msg) == \E i \in DOMAIN log : log[i].level = level /\ log[i].msg = msg
LogIndex(level, msg) == {i \in DOMAIN log : log[i].level = level /\ log[i].msg = msg}

AttemptedChannels ==
    {ch \in {"slack", "email"} :
        \/ ch = "slack" /\ Ops("POST") # {}
        \/ ch = "email" /\ Ops("CONNECT") # {}}

Observation ==
    [sample |-> sample, escaped |-> escaped, issues |-> issues, ret |-> ret,
     attempts |-> AttemptedChannels, posts |-> Cardinality(Ops("POST")),
     sessions |-> Cardinality(Ops("CONNECT"))]

\* ---------------------------------------------------------------- Init
\* the module has been loaded: logging is configured and its first record
\* written; the __main__ block is about to run
Init ==
    /\ pc = "main"
    /\ cycle = 1
    /\ timestamp = 0
    /\ sample = <<>>
    /\ issues = <<>>
    /\ response = <<>>
    /\ smtpOpen = FALSE
    /\ exc = "none"
    /\ escaped = "none"
    /\ ret = <<>>
    /\ log = <<LogRec("INFO", "Logging system initialized successfully", "")>>
    /\ net = <<>>
    /\ prev = <<>>

\* ------------------------------------------------------------- actions
\* __main__: `try: run_health_check()`
main_try ==
    /\ pc = "main"
    /\ pc' = "rhc_start"
    /\ UNCHANGED <<cycle, timestamp, sample, issues, response, smtpOpen, exc,
                   escaped, ret, log, net, prev>>

\* run_health_check: timestamp, "Starting health check", issues = []
run_health_check_start ==
    /\ pc = "rhc_start"
    /\ timestamp' = cycle
    /\ log' = Append(log, LogRec("INFO", "Starting health check", cycle))
    /\ issues' = FreshIssues(issues)
    /\ pc' = "check_cpu"
    /\ UNCHANGED <<cycle, sample, response, smtpOpen, exc, escaped, ret, net, prev>>

collect_skip(m, label, threshold, next) ==
    /\ \/ \E v \in Samples(threshold) :
            /\ sample' = (m :> v) @@ sample
            /\ log' = Append(log, LogRec("INFO", "usage", <<label, v>>))
            /\ issues' = IF Exceeds(v, threshold)
                            THEN Append(issues, Issue(label, v, threshold))
                            ELSE issues
       \/ UNCHANGED <<sample, log, issues>>
    /\ pc' = next
    /\ UNCHANGED <<exc, escaped>>
    /\ UNCHANGED <<cycle, timestamp, response, smtpOpen, ret, net, prev>>

\* one collector call and the threshold test that follows it
collect(m, label, threshold, next) ==
    /\ \/ \E v \in Samples(threshold) :
            /\ sample' = (m :> v) @@ sample
            /\ log' = Append(log, LogRec("INFO", "usage", <<label, v>>))
            /\ issues' = IF Exceeds(v, threshold)
                            THEN Append(issues, Issue(label, v, threshold))
                            ELSE issues
            /\ pc' = next
            /\ UNCHANGED <<exc, escaped>>
       \/ \* the psutil query raises: nothing is assigned, nothing is logged
          /\ Unwind("psutil.Error", CollectorHandler)
          /\ UNCHANGED <<sample, log, issues>>
    /\ UNCHANGED <<cycle, timestamp, response, smtpOpen, ret, net, prev>>

check_cpu ==
    /\ pc = "check_cpu"
    /\ collect("cpu", "CPU", CPU_THRESHOLD, "check_memory")

check_memory ==
    /\ pc = "check_memory"
    /\ collect("memory", "Memory", MEMORY_THRESHOLD, "check_disk")

check_disk ==
    /\ pc = "check_disk"
    /\ collect("disk", "Disk", DISK_THRESHOLD, "branch")

\* `if issues:` ... `else: logging.info("All systems nominal")`
branch ==
    /\ pc = "branch"
    /\ IF ShouldAlert(issues)
          THEN /\ pc' = "slack_post"
               /\ UNCHANGED log
          ELSE /\ pc' = "return"
               /\ log' = Append(log, LogRec("INFO", "All systems nominal", ""))
    /\ UNCHANGED <<cycle, timestamp, sample, issues, response, smtpOpen, exc,
                   escaped, ret, net, prev>>

\* send_slack_alert: build the payload and `requests.post(...)`
send_slack_alert_post ==
    /\ pc = "slack_post"
    /\ \/ \E status \in Statuses :
            /\ response' = <<status>>
            /\ net' = Append(net, [op |-> "POST", result |-> "ok", text |-> FullMessage])
            /\ pc' = "slack_status"
            /\ UNCHANGED <<exc, escaped>>
       \/ \* transport error: no response object
          /\ net' = Append(net, [op |-> "POST", result |-> "error", text |-> FullMessage])
          /\ Unwind("ConnectionError", SlackHandler)
          /\ UNCHANGED response
    /\ UNCHANGED <<cycle, timestamp, sample, issues, smtpOpen, ret, log, prev>>

\* send_slack_alert: `response.raise_for_status()` then the success record
send_slack_alert_raise_for_status ==
    /\ pc = "slack_status"
    /\ IF raise_for_status(response[1])
          THEN /\ Unwind("HTTPError", SlackHandler)
               /\ UNCHANGED log
          ELSE /\ log' = Append(log, LogRec("INFO", "Slack alert sent successfully", ""))
               /\ pc' = "smtp_connect"
               /\ UNCHANGED <<exc, escaped>>
    /\ UNCHANGED <<cycle, timestamp, sample, issues, response, smtpOpen, ret, net, prev>>

send_slack_alert_except_retry ==
    /\ pc = "slack_except"
    /\ log' = Append(log, LogRec("ERROR", "Failed to send Slack alert", exc))
    /\ exc' = "none"
    /\ pc' = IF Cardinality(Ops("POST")) < 2 THEN "slack_post" ELSE "smtp_connect"
    /\ UNCHANGED <<cycle, timestamp, sample, issues, response, smtpOpen,
                   escaped, ret, net, prev>>

\* send_slack_alert: `except Exception as e: logging.error(...)`, then return
send_slack_alert_except ==
    /\ pc = "slack_except"
    /\ log' = Append(log, LogRec("ERROR", "Failed to send Slack alert", exc))
    /\ exc' = "none"
    /\ pc' = "smtp_connect"
    /\ UNCHANGED <<cycle, timestamp, sample, issues, response, smtpOpen,
                   escaped, ret, net, prev>>

\* send_email_alert: `smtplib.SMTP(server, port)` connects in its constructor;
\* a failed connect leaves no connection behind
send_email_alert_connect ==
    /\ pc = "smtp_connect"
    /\ \/ /\ smtpOpen' = TRUE
          /\ net' = Append(net, [op |-> "CONNECT", result |-> "ok", text |-> FullMessage])
          /\ pc' = "smtp_starttls"
          /\ UNCHANGED <<exc, escaped>>
       \/ /\ smtpOpen' = FALSE
          /\ net' = Append(net, [op |-> "CONNECT", result |-> "error", text |-> FullMessage])
          /\ Unwind("SMTPConnectError", EmailHandler)
    /\ UNCHANGED <<cycle, timestamp, sample, issues, response, ret, log, prev>>

\* one call on the open connection inside the `with` body
smtp_call(op, error, next) ==
    /\ \/ /\ net' = Append(net, [op |-> op, result |-> "ok", text |-> FullMessage])
          /\ pc' = next
          /\ UNCHANGED <<exc, escaped>>
       \/ /\ net' = Append(net, [op |-> op, result |-> "error", text |-> FullMessage])
          /\ Unwind(error, BodyHandler)
    /\ UNCHANGED <<cycle, timestamp, sample, issues, response, smtpOpen, ret,
                   log, prev>>

send_email_alert_starttls ==
    /\ pc = "smtp_starttls"
    /\ smtp_call("STARTTLS", "SMTPNotSupportedError", "smtp_login")

send_email_alert_login ==
    /\ pc = "smtp_login"
    /\ smtp_call("LOGIN", "SMTPAuthenticationError", "smtp_sendmail")

send_email_alert_sendmail ==
    /\ pc = "smtp_sendmail"
    /\ smtp_call("SENDMAIL", "SMTPRecipientsRefused", "smtp_exit")

\* leaving the `with` block: SMTP.__exit__ sends QUIT and always closes; a
\* dropped connection is ignored, any other QUIT failure is raised
send_email_alert_exit ==
    /\ pc = "smtp_exit"
    /\ smtpOpen' = FALSE
    /\ \E quit \in {"ok", "disconnected", "error"} :
          /\ net' = Append(net, [op |-> "QUIT", result |-> quit, text |-> FullMessage])
          /\ IF quit = "error"
                THEN Unwind("SMTPResponseException", EmailHandler)
                ELSE /\ pc' = IF exc = "none" THEN "email_ok" ELSE EmailHandler
                     /\ UNCHANGED <<exc, escaped>>
    /\ UNCHANGED <<cycle, timestamp, sample, issues, response, ret, log, prev>>

\* send_email_alert: `logging.info("Email alert sent successfully")`
send_email_alert_ok ==
    /\ pc = "email_ok"
    /\ log' = Append(log, LogRec("INFO", "Email alert sent successfully", ""))
    /\ pc' = "warn"
    /\ UNCHANGED <<cycle, timestamp, sample, issues, response, smtpOpen, exc,
                   escaped, ret, net, prev>>

\* send_email_alert: `except Exception as e: logging.error(...)`, then return
send_email_alert_except ==
    /\ pc = "email_except"
    /\ log' = Append(log, LogRec("ERROR", "Failed to send email alert", exc))
    /\ exc' = "none"
    /\ pc' = "warn"
    /\ UNCHANGED <<cycle, timestamp, sample, issues, response, smtpOpen,
                   escaped, ret, net, prev>>

\* `logging.warning(f"Health issues detected: {alert_message}")`
log_warning ==
    /\ pc = "warn"
    /\ log' = Append(log, LogRec("WARNING", "Health issues detected", issues))
    /\ pc' = "return"
    /\ UNCHANGED <<cycle, timestamp, sample, issues, response, smtpOpen, exc,
                   escaped, ret, net, prev>>

\* `return len(issues) == 0`; __main__ discards the value and the script ends
run_health_check_return ==
    /\ pc = "return"
    /\ ret' = <<Verdict(issues)>>
    /\ pc' = "exited"
    /\ UNCHANGED <<cycle, timestamp, sample, issues, response, smtpOpen, exc,
                   escaped, log, net, prev>>

\* __main__: `except Exception as e: logging.critical(...)`; the script ends
main_except ==
    /\ pc = "main_except"
    /\ log' = Append(log, MainExceptRecord(exc))
    /\ exc' = "none"
    /\ pc' = "exited"
    /\ UNCHANGED <<cycle, timestamp, sample, issues, response, smtpOpen,
                   escaped, ret, net, prev>>

\* the external scheduler executes the script again: a new process, whose
\* module-level code runs afresh; the finished execution is remembered in prev
relaunch ==
    /\ pc = "exited"
    /\ cycle < MaxCycles
    /\ prev' = <<Observation>>
    /\ cycle' = cycle + 1
    /\ pc' = "main"
    /\ sample' = <<>>
    /\ response' = <<>>
    /\ smtpOpen' = FALSE
    /\ exc' = "none"
    /\ escaped' = "none"
    /\ ret' = <<>>
    /\ log' = <<LogRec("INFO", "Logging system initialized successfully", "")>>
    /\ net' = <<>>
    /\ UNCHANGED <<timestamp, issues>>

Next ==
    \/ main_try
    \/ run_health_check_start
    \/ check_cpu
    \/ check_memory
    \/ check_disk
    \/ branch
    \/ send_slack_alert_post
    \/ send_slack_alert_raise_for_status
    \/ send_slack_alert_except
    \/ send_email_alert_connect
    \/ send_email_alert_starttls
    \/ send_email_alert_login
    \/ send_email_alert_sendmail
    \/ send_email_alert_exit
    \/ send_email_alert_ok
    \/ send_email_alert_except
    \/ log_warning
    \/ run_health_check_return
    \/ main_except
    \/ relaunch

Spec == Init /\ [][Next]_vars

\* ------------------------------------------------------------ properties
AllMetrics == {"cpu", "memory", "disk"}

\* every collector of this execution returned a value
Collected == DOMAIN sample = AllMetrics

\* run_health_check returned a value and the script ended
Completed == pc = "exited" /\ ret # <<>>

NetFailed(op) == \E i \in DOMAIN net : net[i].op = op /\ net[i].result = "error"

\* the webhook delivery failed the way the code detects it
SlackFailed ==
    \/ NetFailed("POST")
    \/ response # <<>> /\ response[1] >= 400 /\ response[1] < 600

EmailFailed ==
    \/ NetFailed("CONNECT")
    \/ NetFailed("STARTTLS")
    \/ NetFailed("LOGIN")
    \/ NetFailed("SENDMAIL")
    \/ NetFailed("QUIT")

\* send_email_alert has returned to run_health_check
EmailReturned == pc \in {"warn", "return"} \/ (pc = "exited" /\ Ops("CONNECT") # {})

SlackOutcomeLogged ==
    \/ Logged("INFO", "Slack alert sent successfully")
    \/ Logged("ERROR", "Failed to send Slack alert")

EmailOutcomeLogged ==
    \/ Logged("INFO", "Email alert sent successfully")
    \/ Logged("ERROR", "Failed to send email alert")

\* C1: in every completed cycle the returned verdict is true exactly when
\* the violation list built in that cycle is empty, whatever the deliveries
\* did.
C1_VerdictIffNoViolations ==
    Completed => (ret[1] <=> (issues = <<>>))

C1_Witness ==
    /\ Completed
    /\ ret = <<FALSE>>
    /\ Logged("ERROR", "Failed to send Slack alert")
    /\ Logged("INFO", "Email alert sent successfully")

\* C2: in every completed cycle a delivery is attempted exactly when the
\* violation list is non-empty: none on any channel without a violation,
\* one on every channel with one.
C2_DispatchIffViolations ==
    /\ net # <<>> => issues # <<>>
    /\ Completed =>
          /\ issues = <<>> => AttemptedChannels = {}
          /\ issues # <<>> => AttemptedChannels = {"slack", "email"}

C2_Witness ==
    /\ Completed
    /\ Len(issues) = 1
    /\ AttemptedChannels = {"slack", "email"}
    /\ ~SlackFailed
    /\ ~EmailFailed

\* C3: when the collectors returned and there is a violation, both channels
\* are attempted by the time the script ends, for every combination of
\* outcomes; an attempt on one channel is never left without the other.
C3_ChannelIndependence ==
    pc = "exited" =>
        /\ (Collected /\ issues # <<>>) =>
               (Ops("POST") # {} /\ Ops("CONNECT") # {})
        /\ (Ops("POST") # {}) <=> (Ops("CONNECT") # {})

C3_Witness ==
    /\ pc = "exited"
    /\ NetFailed("POST")
    /\ NetFailed("CONNECT")
    /\ Cardinality(DOMAIN net) = 2

\* the three metrics in sampling order, with label and threshold
MetricOrder ==
    << [name |-> "cpu", label |-> "CPU", threshold |-> CPU_THRESHOLD],
       [name |-> "memory", label |-> "Memory", threshold |-> MEMORY_THRESHOLD],
       [name |-> "disk", label |-> "Disk", threshold |-> DISK_THRESHOLD] >>

StrictlyAbove(r) == r.value > r.threshold * 10

ReferenceViolations ==
    SelectSeq([i \in 1..3 |-> [metric |-> MetricOrder[i].label,
                               value |-> sample[MetricOrder[i].name],
                               threshold |-> MetricOrder[i].threshold]],
              StrictlyAbove)

\* C4: once the three samples are taken the violation list is exactly the
\* sub-sequence of [cpu, memory, disk] whose value is strictly above its
\* threshold (80, 85, 90), in that order; a sample equal to its threshold
\* gives no violation.
C4_ThresholdEvaluation ==
    Collected => issues = ReferenceViolations

C4_Witness ==
    /\ Completed
    /\ sample["cpu"] = Tenths(CPU_THRESHOLD)
    /\ sample["memory"] = Tenths(MEMORY_THRESHOLD) + Spread
    /\ sample["disk"] = Tenths(DISK_THRESHOLD)
    /\ Len(issues) = 1
    /\ issues[1].metric = "Memory"

\* C5 (as claimed): whatever fails inside a cycle, no exception leaves
\* run_health_check; it is logged at critical severity and a failure
\* indicator is returned to the caller.
C5_Original ==
    pc = "exited" =>
        /\ escaped = "none"
        /\ ~Collected => (ret = <<FALSE>> /\ Logged("CRITICAL", "Health check script failed"))

\* C5 (amended): a collector failure leaves run_health_check as an exception
\* (no value is returned), is caught by the __main__ block and logged once at
\* critical severity, and the script ends with no exception in flight;
\* delivery failures never leave run_health_check and are never logged at
\* critical severity.
C5_MainBlockCatches ==
    pc = "exited" =>
        /\ exc = "none"
        /\ ~Collected =>
              /\ escaped = "psutil.Error"
              /\ ret = <<>>
              /\ Cardinality(LogIndex("CRITICAL", "Health check script failed")) = 1
              /\ log[Len(log)] = LogRec("CRITICAL", "Health check script failed", escaped)
        /\ Collected =>
              /\ escaped = "none"
              /\ ret # <<>>
              /\ \A i \in DOMAIN log : log[i].level # "CRITICAL"

C5_Witness ==
    /\ pc = "exited"
    /\ DOMAIN sample = {"cpu", "memory"}
    /\ escaped = "psutil.Error"
    /\ ret = <<>>
    /\ log[Len(log)].level = "CRITICAL"

\* C6: when a collector fails the cycle is aborted: no verdict record
\* (neither "All systems nominal" nor the violation warning) is logged, no
\* delivery is attempted, even if an earlier metric was above its threshold,
\* and the failure is logged at critical severity.
C6_CollectorFailureAborts ==
    /\ escaped # "none" =>
          /\ ~Logged("INFO", "All systems nominal")
          /\ ~Logged("WARNING", "Health issues detected")
          /\ net = <<>>
    /\ (pc = "exited" /\ ~Collected) =>
          /\ escaped # "none"
          /\ Logged("CRITICAL", "Health check script failed")
          /\ ret = <<>>

C6_Witness ==
    /\ pc = "exited"
    /\ "cpu" \in DOMAIN sample
    /\ ~Collected
    /\ issues # <<>>
    /\ net = <<>>
    /\ Logged("CRITICAL", "Health check script failed")

\* C7 (as claimed): a webhook answer with any non-2xx status is recorded as
\* a failed delivery.
C7_Original ==
    (pc = "exited" /\ response # <<>> /\ ~(response[1] >= 200 /\ response[1] < 300))
        => Logged("ERROR", "Failed to send Slack alert")

\* C7 (amended): a webhook transport error or an answer with a 4xx or 5xx
\* status, and any email failure, is recorded as an ERROR record of that
\* channel carrying the exception; nothing leaves run_health_check and the
\* cycle returns healthy = false.  A webhook answer below 400 is logged as
\* sent.
C7_DispatcherNeverFailsCycle ==
    (pc = "exited" /\ Collected /\ issues # <<>>) =>
        /\ escaped = "none"
        /\ ret = <<FALSE>>
        /\ SlackFailed <=>
              \E i \in DOMAIN log : /\ log[i].level = "ERROR"
                                    /\ log[i].msg = "Failed to send Slack alert"
                                    /\ log[i].detail \in {"ConnectionError", "HTTPError"}
        /\ ~SlackFailed <=> Logged("INFO", "Slack alert sent successfully")
        /\ EmailFailed <=>
              \E i \in DOMAIN log : /\ log[i].level = "ERROR"
                                    /\ log[i].msg = "Failed to send email alert"
                                    /\ log[i].detail # "none"

C7_Witness ==
    /\ pc = "exited"
    /\ response = <<500>>
    /\ NetFailed("LOGIN")
    /\ Logged("ERROR", "Failed to send Slack alert")
    /\ Logged("ERROR", "Failed to send email alert")
    /\ ret = <<FALSE>>

\* C8: an execution whose collectors give the same outputs as the previous
\* execution's ends with the same violation list, the same verdict and the
\* same delivery attempts, whatever the previous execution's deliveries did.
C8_Repeatable ==
    (pc = "exited" /\ prev # <<>>
        /\ prev[1].sample = sample /\ prev[1].escaped = escaped) =>
        /\ prev[1].issues = issues
        /\ prev[1].ret = ret
        /\ prev[1].attempts = AttemptedChannels
        /\ prev[1].posts = Cardinality(Ops("POST"))
        /\ prev[1].sessions = Cardinality(Ops("CONNECT"))

C8_Witness ==
    /\ pc = "exited"
    /\ prev # <<>>
    /\ Collected
    /\ prev[1].sample = sample
    /\ Len(issues) = 2
    /\ prev[1].issues = issues
    /\ AttemptedChannels = {"slack", "email"}

\* C9: the SMTP connection is open only between a successful connect and
\* the exit of the `with` block; once send_email_alert has returned it is
\* closed, and a failure at any stage is logged as an ERROR record without
\* leaving run_health_check.
C9_ScopedConnection ==
    /\ smtpOpen => pc \in {"smtp_starttls", "smtp_login", "smtp_sendmail", "smtp_exit"}
    /\ EmailReturned =>
          /\ ~smtpOpen
          /\ escaped = "none"
          /\ EmailFailed => Logged("ERROR", "Failed to send email alert")

C9_Witness ==
    /\ pc = "warn"
    /\ ~smtpOpen
    /\ NetFailed("STARTTLS")
    /\ Ops("QUIT") # {}
    /\ Logged("ERROR", "Failed to send email alert")

\* C10: a cycle with a violation makes exactly one webhook POST and opens
\* exactly one SMTP session, whatever their outcomes; the webhook attempt is
\* over before the SMTP session starts, and the WARNING record comes after
\* both.
C10_SingleAttemptOrdered ==
    /\ Cardinality(Ops("POST")) <= 1
    /\ Cardinality(Ops("CONNECT")) <= 1
    /\ (pc = "exited" /\ Collected /\ issues # <<>>) =>
          (Cardinality(Ops("POST")) = 1 /\ Cardinality(Ops("CONNECT")) = 1)
    /\ \A i \in Ops("POST") : i = 1
    /\ Ops("CONNECT") # {} => SlackOutcomeLogged
    /\ \A w \in LogIndex("WARNING", "Health issues detected") :
          /\ ~smtpOpen
          /\ \E s \in 1..(w - 1) : log[s].msg \in {"Slack alert sent successfully",
                                                   "Failed to send Slack alert"}
          /\ \E e \in 1..(w - 1) : log[e].msg \in {"Email alert sent successfully",
                                                   "Failed to send email alert"}
          /\ log[w].detail = issues

C10_Witness ==
    /\ pc = "exited"
    /\ Logged("WARNING", "Health issues detected")
    /\ SlackFailed
    /\ NetFailed("SENDMAIL")
    /\ Cardinality(Ops("POST")) = 1
    /\ Cardinality(Ops("CONNECT")) = 1

====
